---- MODULE Spec2Model ----
(***************************************************************************)
(* A model of millerRabin.js: the Miller-Rabin primality test with its     *)
(* deterministic witness table, its random witness generation and the      *)
(* rejection sampler randomBigIntInRange.                                  *)
(*                                                                         *)
(* TLC's integers are 32 bits wide and the witness table reaches 3.4e14,   *)
(* so a JavaScript BigInt is modelled as a pair <<hi, lo>> that stands for *)
(* hi * Base + lo with 0 <= lo < Base (hi carries the sign).  A loop of the *)
(* code is a recursive function of the record of its loop variables: TLC   *)
(* evaluates the argument of a function before it applies the function.    *)
(***************************************************************************)
EXTENDS Integers, Sequences, FiniteSets, TLC

VARIABLES
    n,          \* millerRabin: the candidate (BigInt)
    k,          \* millerRabin: the number of random witnesses asked for
    pc,         \* the position in the code
    s,          \* millerRabin: the exponent of 2 in n - 1
    d,          \* millerRabin: the odd part of n - 1 (BigInt)
    witnesses,  \* the witness array, as selected or as generated so far
    idx,        \* position of the for-of loop in witnesses (0: loop not entered)
    cw,         \* what the last checkWitness call returned, with its x values
    outcomes,   \* history: the boolean returned by each checkWitness call so far
    tested,     \* history: the witness handed to each checkWitness call so far
    verdict,    \* what millerRabin returned: "true", "false", or "none" so far
    min,        \* randomBigIntInRange: lower bound (BigInt)
    max,        \* randomBigIntInRange: upper bound (BigInt)
    range,      \* randomBigIntInRange: max - min + 1n
    bitsNeeded, \* randomBigIntInRange: the binary digits of range
    bytesNeeded,\* randomBigIntInRange: the bytes drawn at a time
    mask,       \* randomBigIntInRange: (1n << bitsNeeded) - 1n
    draw,       \* randomBigIntInRange: result after line 174, the masked sample
    result      \* randomBigIntInRange: the value returned

\* The locals randomBigIntInRange computes once, before its loop
locals == <<range, bitsNeeded, bytesNeeded, mask>>

vars == <<n, k, pc, s, d, witnesses, idx, cw, outcomes, tested, verdict,
          min, max, locals, draw, result>>

---------------------------------------------------------------------------
(* BigInt arithmetic *)

Base == 100000000

\* The BigInt written hi followed by the eight decimal digits of lo.
Dec(hi, lo) == <<hi, lo>>

\* The BigInt of a machine integer.
Big(i) == <<i \div Base, i % Base>>

\* Every value a BigInt takes here
BigInts == Int \X Int

Zero == Big(0)
One == Big(1)
Two == Big(2)
Three == Big(3)

Lt(a, b) == a[1] < b[1] \/ (a[1] = b[1] /\ a[2] < b[2])
Le(a, b) == a = b \/ Lt(a, b)

Add(a, b) == LET l == a[2] + b[2] IN <<a[1] + b[1] + (l \div Base), l % Base>>
Sub(a, b) == LET l == a[2] - b[2] IN <<a[1] - b[1] + (l \div Base), l % Base>>

\* (a & 1n) === 0n
IsEven(a) == a[2] % 2 = 0

\* a >> 1n
Shr1(a) == <<a[1] \div 2, (a[2] + (a[1] % 2) * Base) \div 2>>

\* a << 1n
Shl1(a) == Add(a, a)

\* a << BigInt(bits)
ShlVars == [a : BigInts, i : Nat]
ShlLoop[st \in ShlVars] ==
    IF st.i = 0 THEN st.a ELSE ShlLoop[[a |-> Shl1(st.a), i |-> st.i - 1]]
Shl(a, bits) == ShlLoop[[a |-> a, i |-> bits]]

\* (a + b) % m for 0 <= a, b < m
AddMod(a, b, m) == LET t == Add(a, b) IN IF Lt(t, m) THEN t ELSE Sub(t, m)

\* (x * y) % m for 0 <= x < m and y >= 0, by doubling and adding
MulModVars == [acc : BigInts, add : BigInts, y : BigInts, m : BigInts]
MulModLoop[st \in MulModVars] ==
    IF st.y = Zero THEN st.acc
    ELSE MulModLoop[[acc |-> IF IsEven(st.y) THEN st.acc
                                             ELSE AddMod(st.acc, st.add, st.m),
                     add |-> AddMod(st.add, st.add, st.m),
                     y   |-> Shr1(st.y),
                     m   |-> st.m]]
MulMod(x, y, m) == MulModLoop[[acc |-> Zero, add |-> x, y |-> y, m |-> m]]

\* a % m for a >= 0 and m >= 1
Mod(a, m) == IF Lt(a, m) THEN a
             ELSE IF m = One THEN Zero ELSE MulMod(One, a, m)

\* a & b for a, b >= 0
BitAndVars == [acc : BigInts, w : BigInts, a : BigInts, b : BigInts]
BitAndLoop[st \in BitAndVars] ==
    IF st.a = Zero \/ st.b = Zero THEN st.acc
    ELSE BitAndLoop[[acc |-> IF IsEven(st.a) \/ IsEven(st.b) THEN st.acc
                                                            ELSE Add(st.acc, st.w),
                     w   |-> Shl1(st.w),
                     a   |-> Shr1(st.a),
                     b   |-> Shr1(st.b)]]
BitAnd(a, b) == BitAndLoop[[acc |-> Zero, w |-> One, a |-> a, b |-> b]]

\* a.toString(2).length: the binary digits, and the sign of a negative number
BitLengthVars == [a : BigInts, len : Nat]
BitLengthLoop[st \in BitLengthVars] ==
    IF st.a = Zero THEN st.len
    ELSE BitLengthLoop[[a |-> Shr1(st.a), len |-> st.len + 1]]
BinaryStringLength(a) ==
    IF a = Zero THEN 1
    ELSE IF Lt(a, Zero) THEN 1 + BitLengthLoop[[a |-> Sub(Zero, a), len |-> 0]]
    ELSE BitLengthLoop[[a |-> a, len |-> 0]]

---------------------------------------------------------------------------
(* modPow(base, exponent, modulus): the imported modular exponentiation *)

modPowVars == [r : BigInts, b : BigInts, e : BigInts, m : BigInts]
modPowLoop[st \in modPowVars] ==
    IF st.e = Zero THEN st.r
    ELSE modPowLoop[[r |-> IF IsEven(st.e) THEN st.r ELSE MulMod(st.r, st.b, st.m),
                     b |-> MulMod(st.b, st.b, st.m),
                     e |-> Shr1(st.e),
                     m |-> st.m]]
modPow(b, e, m) == modPowLoop[[r |-> Mod(One, m), b |-> Mod(b, m), e |-> e, m |-> m]]

---------------------------------------------------------------------------
(* millerRabin: the edge cases and the factoring of n - 1 *)

\* Mutant: the test of line 41 covers 3 only.
edgeCases_noTwo(nn) ==
    IF Lt(nn, Two) THEN "false"
    ELSE IF nn = Three THEN "true"
    ELSE IF IsEven(nn) THEN "false"
    ELSE "none"

\* Lines 40-42: what millerRabin returns before any computation, or "none".
edgeCases(nn) ==
    IF Lt(nn, Two) THEN "false"
    ELSE IF nn = Two \/ nn = Three THEN "true"
    ELSE IF IsEven(nn) THEN "false"
    ELSE "none"

\* Mutant: the loop halves d and does not count (line 49 is missing).
halve_noCount(sd) == [s |-> sd.s, d |-> Shr1(sd.d)]

\* One iteration of the while loop of lines 47-50.
halve(sd) == [s |-> sd.s + 1, d |-> Shr1(sd.d)]

\* Lines 45-50 as a whole: (s, d) with n - 1 = 2^s * d and d odd.
factorVars == [s : Nat, d : BigInts]
factorLoop[sd \in factorVars] ==
    IF IsEven(sd.d) THEN factorLoop[halve(sd)] ELSE sd
factor(nn) == factorLoop[[s |-> 0, d |-> Sub(nn, One)]]

---------------------------------------------------------------------------
(* checkWitness *)

\* The for loop of lines 87-90; st.xs holds every value x has taken.
squareVars == [xs : Seq(BigInts), j : Nat, n : BigInts, s : Nat]
squareLoop[st \in squareVars] ==
    IF ~(st.j < st.s - 1) THEN [ret |-> FALSE, xs |-> st.xs]
    ELSE LET x == MulMod(st.xs[Len(st.xs)], st.xs[Len(st.xs)], st.n)
         IN  IF x = Sub(st.n, One) THEN [ret |-> TRUE, xs |-> Append(st.xs, x)]
             ELSE squareLoop[[xs |-> Append(st.xs, x), j |-> st.j + 1,
                              n |-> st.n, s |-> st.s]]

\* Mutant: the test of x before the loop (line 85) is missing.
checkWitness_noInitial(a, dd, nn, ss) ==
    squareLoop[[xs |-> <<modPow(a, dd, nn)>>, j |-> 0, n |-> nn, s |-> ss]]

\* Mutant: the initial x === 1n test is missing.
checkWitness_noOne(a, dd, nn, ss) ==
    LET x == modPow(a, dd, nn)
    IN  IF x = Sub(nn, One) THEN [ret |-> TRUE, xs |-> <<x>>]
        ELSE squareLoop[[xs |-> <<x>>, j |-> 0, n |-> nn, s |-> ss]]

\* Lines 82-93: ret is the value returned, xs the values of x in order.
checkWitness(a, dd, nn, ss) ==
    LET x == modPow(a, dd, nn)
    IN  IF x = One \/ x = Sub(nn, One) THEN [ret |-> TRUE, xs |-> <<x>>]
        ELSE squareLoop[[xs |-> <<x>>, j |-> 0, n |-> nn, s |-> ss]]

---------------------------------------------------------------------------
(* getDeterministicWitnesses *)

\* Lines 110-118: each exclusive threshold with its witnesses, in order.
WitnessTable == <<
    [below |-> Dec(0, 2047),           ws |-> <<Big(2)>>],
    [below |-> Dec(0, 1373653),        ws |-> <<Big(2), Big(3)>>],
    [below |-> Dec(0, 9080191),        ws |-> <<Big(31), Big(73)>>],
    [below |-> Dec(0, 25326001),       ws |-> <<Big(2), Big(3), Big(5)>>],
    [below |-> Dec(32, 15031751),      ws |-> <<Big(2), Big(3), Big(5), Big(7)>>],
    [below |-> Dec(47, 59123141),      ws |-> <<Big(2), Big(7), Big(61)>>],
    [below |-> Dec(11220, 04669633),   ws |-> <<Big(2), Big(13), Big(23), Big(1662803)>>],
    [below |-> Dec(34747, 49660383),   ws |-> <<Big(2), Big(3), Big(5), Big(7), Big(11), Big(13)>>],
    [below |-> Dec(3415500, 71728321), ws |-> <<Big(2), Big(3), Big(5), Big(7), Big(11), Big(13), Big(17)>> ] >>

\* null (line 119).  No row of the table is empty, so <<>> stands for it.
Null == <<>>

\* Mutant: the thresholds are taken as inclusive (n <= threshold).
getDeterministicWitnesses_inclusive(nn) ==
    LET rows == {i \in 1..Len(WitnessTable) : Le(nn, WitnessTable[i].below)}
    IN  IF rows = {} THEN Null
        ELSE WitnessTable[CHOOSE i \in rows : \A j \in rows : i <= j].ws

\* Lines 109-120: the witnesses of the first row whose threshold exceeds n.
getDeterministicWitnesses(nn) ==
    LET rows == {i \in 1..Len(WitnessTable) : Lt(nn, WitnessTable[i].below)}
    IN  IF rows = {} THEN Null
        ELSE WitnessTable[CHOOSE i \in rows : \A j \in rows : i <= j].ws

---------------------------------------------------------------------------
(* randomBigIntInRange *)

\* Line 160
rangeOf(mn, mx) == Add(Sub(mx, mn), One)

\* Mutant: one bit more than the range needs.
bitsOf_extra(rng) == BinaryStringLength(rng) + 1

\* Line 161
bitsOf(rng) == BinaryStringLength(rng)

\* Line 162: Math.ceil(bitsNeeded / 8)
bytesOf(bits) == (bits + 7) \div 8

\* Line 163
maskOf(bits) == Sub(Shl(One, bits), One)

\* Lines 170-173: result = (result << 8n) | BigInt(byte), byte by byte.
packVars == [result : BigInts, i : Nat, bytes : Seq(0..255)]
packLoop[st \in packVars] ==
    IF st.i > Len(st.bytes) THEN st.result
    ELSE packLoop[[result |-> Add(Shl(st.result, 8), Big(st.bytes[st.i])),
                   i |-> st.i + 1, bytes |-> st.bytes]]

\* Lines 170-174: the sample a byte array yields, masked.
sample(bytes, msk) ==
    BitAnd(packLoop[[result |-> Zero, i |-> 1, bytes |-> bytes]], msk)

\* Mutant: the loop condition is result > range.
accepted_inclusive(smp, rng) == Le(smp, rng)

\* Line 175: the do-while loop ends when result < range.
accepted(smp, rng) == Lt(smp, rng)

\* Line 177
returned(smp, mn) == Add(mn, smp)

---------------------------------------------------------------------------
(* The inputs *)

NegN == 2       \* candidates start at -NegN
MaxN == 600     \* every candidate up to MaxN
Window == 2     \* and those within Window of each threshold of the table
NegK == 1       \* k ranges over -NegK .. MaxK
MaxK == 2

\* The prime of the example of line 23, and composites that pass for primes
\* with few witnesses: Carmichael numbers and strong pseudoprimes to base 2.
Examples == {104729, 1105, 1729, 2821, 3277, 4033, 4681, 8321}

Candidates ==
    {Big(i) : i \in -NegN..MaxN}
    \cup {Big(i) : i \in Examples}
    \cup {Add(WitnessTable[r].below, Big(w)) :
              r \in 1..Len(WitnessTable), w \in -Window..Window}

Accuracies == -NegK..MaxK

\* The byte arrays crypto.getRandomValues may leave in a Uint8Array of nb
\* bytes: byte i of the array of seed b is b * i mod 256.  One byte is drawn
\* exhaustively; of longer arrays a sample is taken.
Entropy(nb) ==
    {[i \in 1..nb |-> (b * i) % 256] :
         b \in IF nb = 1 THEN 0..255 ELSE {0, 1, 2, 255}}

NoCall == [ret |-> TRUE, xs |-> <<>>]

---------------------------------------------------------------------------
(* millerRabin *)

Init ==
    /\ n \in Candidates
    /\ k \in Accuracies
    /\ pc = "call"
    /\ s = 0
    /\ d = Zero
    /\ witnesses = <<>>
    /\ idx = 0
    /\ cw = NoCall
    /\ outcomes = <<>>
    /\ tested = <<>>
    /\ verdict = "none"
    /\ min = Zero
    /\ max = Zero
    /\ range = Zero
    /\ bitsNeeded = 0
    /\ bytesNeeded = 0
    /\ mask = Zero
    /\ draw = Zero
    /\ result = Zero

\* Lines 40-46: the edge cases return; otherwise s and d are initialised.
enter ==
    /\ pc = "call"
    /\ IF edgeCases(n) # "none"
         THEN /\ verdict' = edgeCases(n)
              /\ pc' = "done"
              /\ UNCHANGED <<s, d>>
         ELSE /\ s' = 0
              /\ d' = Sub(n, One)
              /\ pc' = "halve"
              /\ UNCHANGED verdict
    /\ UNCHANGED <<n, k, witnesses, idx, cw, outcomes, tested,
                   min, max, locals, draw, result>>

\* Lines 47-50: one iteration of the halving loop.
halveStep ==
    /\ pc = "halve"
    /\ IsEven(d)
    /\ s' = halve([s |-> s, d |-> d]).s
    /\ d' = halve([s |-> s, d |-> d]).d
    /\ UNCHANGED <<n, k, pc, witnesses, idx, cw, outcomes, tested, verdict,
                   min, max, locals, draw, result>>

\* Lines 47 and 53: the loop ends and the table supplies the witnesses.
selectDeterministic ==
    /\ pc = "halve"
    /\ ~IsEven(d)
    /\ getDeterministicWitnesses(n) # Null
    /\ witnesses' = getDeterministicWitnesses(n)
    /\ idx' = 1
    /\ pc' = "test"
    /\ UNCHANGED <<n, k, s, d, cw, outcomes, tested, verdict,
                   min, max, locals, draw, result>>

\* Lines 47, 53 and 133: the table has no row for n; generateRandomWitnesses
\* starts with an empty array.
selectRandom ==
    /\ pc = "halve"
    /\ ~IsEven(d)
    /\ getDeterministicWitnesses(n) = Null
    /\ witnesses' = <<>>
    /\ pc' = "gen"
    /\ UNCHANGED <<n, k, s, d, idx, cw, outcomes, tested, verdict,
                   min, max, locals, draw, result>>

\* Lines 134-135 and 160-163: i < k, randomBigIntInRange(2n, n - 2n) is
\* called and computes its locals.  i is the length of the array, which
\* grows by one with each iteration.
generateCall ==
    /\ pc = "gen"
    /\ Len(witnesses) < k
    /\ min' = Two
    /\ max' = Sub(n, Two)
    /\ range' = rangeOf(min', max')
    /\ bitsNeeded' = bitsOf(range')
    /\ bytesNeeded' = bytesOf(bitsNeeded')
    /\ mask' = maskOf(bitsNeeded')
    /\ pc' = "draw"
    /\ UNCHANGED <<n, k, s, d, witnesses, idx, cw, outcomes, tested, verdict,
                   draw, result>>

\* Lines 166-175: a draw that the do-while loop rejects.
drawReject ==
    /\ pc = "draw"
    /\ pc' = "draw"
    /\ \E bytes \in Entropy(bytesNeeded) :
          /\ draw' = sample(bytes, mask)
          /\ ~accepted(draw', range)
    /\ UNCHANGED <<n, k, s, d, witnesses, idx, cw, outcomes, tested,
                   verdict, min, max, locals, result>>

\* Lines 166-177: a draw that ends the loop, and the value returned.
drawAccept ==
    /\ pc = "draw"
    /\ pc' = "ret"
    /\ \E bytes \in Entropy(bytesNeeded) :
          /\ draw' = sample(bytes, mask)
          /\ accepted(draw', range)
    /\ result' = returned(draw', min)
    /\ UNCHANGED <<n, k, s, d, witnesses, idx, cw, outcomes, tested, verdict,
                   min, max, locals>>

\* Line 135: the value returned is pushed.
generatePush ==
    /\ pc = "ret"
    /\ witnesses' = Append(witnesses, result)
    /\ pc' = "gen"
    /\ UNCHANGED <<n, k, s, d, idx, cw, outcomes, tested, verdict,
                   min, max, locals, draw, result>>

\* Lines 134 and 137: the loop of generateRandomWitnesses ends.
generateReturn ==
    /\ pc = "gen"
    /\ ~(Len(witnesses) < k)
    /\ idx' = 1
    /\ pc' = "test"
    /\ UNCHANGED <<n, k, s, d, witnesses, cw, outcomes, tested, verdict,
                   min, max, locals, draw, result>>

\* Mutant: a failing witness is recorded but the loop goes on.
testWitness_noReturn ==
    /\ pc = "test"
    /\ idx <= Len(witnesses)
    /\ cw' = checkWitness(witnesses[idx], d, n, s)
    /\ outcomes' = Append(outcomes, cw'.ret)
    /\ tested' = Append(tested, witnesses[idx])
    /\ idx' = idx + 1
    /\ verdict' = IF cw'.ret THEN verdict ELSE "false"
    /\ pc' = IF idx = Len(witnesses) /\ verdict' = "false" THEN "done" ELSE "test"
    /\ UNCHANGED <<n, k, s, d, witnesses, min, max, locals, draw, result>>

\* Lines 56-60: one iteration of the for-of loop.
testWitness ==
    /\ pc = "test"
    /\ idx <= Len(witnesses)
    /\ cw' = checkWitness(witnesses[idx], d, n, s)
    /\ outcomes' = Append(outcomes, cw'.ret)
    /\ tested' = Append(tested, witnesses[idx])
    /\ IF cw'.ret
         THEN /\ idx' = idx + 1
              /\ UNCHANGED <<pc, verdict>>
         ELSE /\ verdict' = "false"
              /\ pc' = "done"
              /\ UNCHANGED idx
    /\ UNCHANGED <<n, k, s, d, witnesses, min, max, locals, draw, result>>

\* Lines 56 and 62: the witnesses are exhausted.
returnTrue ==
    /\ pc = "test"
    /\ idx > Len(witnesses)
    /\ verdict' = "true"
    /\ pc' = "done"
    /\ UNCHANGED <<n, k, s, d, witnesses, idx, cw, outcomes, tested,
                   min, max, locals, draw, result>>

Next ==
    \/ enter
    \/ halveStep
    \/ selectDeterministic
    \/ selectRandom
    \/ generateCall
    \/ drawReject
    \/ drawAccept
    \/ generatePush
    \/ generateReturn
    \/ testWitness
    \/ returnTrue

Spec == Init /\ [][Next]_vars

\* The code runs to completion: it is synchronous and nothing suspends it.
\* A draw the loop accepts comes eventually (the entropy source is fair).
FairSpec == Spec /\ WF_vars(Next) /\ WF_vars(drawAccept)

---------------------------------------------------------------------------
(* randomBigIntInRange on its own *)

MaxMin == 3     \* min is -MaxMin, 0 or MaxMin
MaxRange == 17  \* max - min + 1 ranges over 1 .. MaxRange, and two wide ranges

RangeSizes == (1..MaxRange) \cup {100, 255}

InitRand ==
    /\ min \in {Big(-MaxMin), Zero, Big(MaxMin)}
    /\ max \in {Add(min, Big(r - 1)) : r \in RangeSizes}
    /\ range = rangeOf(min, max)
    /\ bitsNeeded = bitsOf(range)
    /\ bytesNeeded = bytesOf(bitsNeeded)
    /\ mask = maskOf(bitsNeeded)
    /\ pc = "draw"
    /\ draw = Zero
    /\ result = Zero
    /\ n = Zero
    /\ k = 0
    /\ s = 0
    /\ d = Zero
    /\ witnesses = <<>>
    /\ idx = 0
    /\ cw = NoCall
    /\ outcomes = <<>>
    /\ tested = <<>>
    /\ verdict = "none"

NextRand ==
    \/ drawReject
    \/ drawAccept

SpecRand == InitRand /\ [][NextRand]_vars

\* A draw the loop accepts comes eventually (the entropy source is fair).
FairSpecRand == SpecRand /\ WF_vars(drawAccept)

---------------------------------------------------------------------------
(* checkWitness on its own *)

MaxCheckN == 65     \* every odd n from 5 to MaxCheckN, with every a in [2, n-2]

\* The inputs: n odd, n - 1 = 2^s * d as millerRabin factors it, and a witness.
\* Beside the small n, each threshold of the table with a few small witnesses.
CheckInputs ==
    {<<Big(i), Big(a)>> : i \in {j \in 5..MaxCheckN : j % 2 = 1}, a \in 2..MaxCheckN - 2}
    \cup {<<WitnessTable[r].below, Big(a)>> : r \in 1..Len(WitnessTable), a \in {2, 3, 5, 7}}
    \cup {<<WitnessTable[r].below, Sub(WitnessTable[r].below, Two)>> : r \in 1..Len(WitnessTable)}

InitCheck ==
    /\ \E in \in CheckInputs :
          /\ Le(in[2], Sub(in[1], Two))
          /\ n = in[1]
          /\ witnesses = <<in[2]>>
          /\ s = factor(in[1]).s
          /\ d = factor(in[1]).d
    /\ pc = "check"
    /\ k = 1
    /\ idx = 1
    /\ cw = NoCall
    /\ outcomes = <<>>
    /\ tested = <<>>
    /\ verdict = "none"
    /\ min = Zero
    /\ max = Zero
    /\ range = Zero
    /\ bitsNeeded = 0
    /\ bytesNeeded = 0
    /\ mask = Zero
    /\ draw = Zero
    /\ result = Zero

\* Lines 82-93: one call of checkWitness.
callCheckWitness ==
    /\ pc = "check"
    /\ cw' = checkWitness(witnesses[1], d, n, s)
    /\ pc' = "checked"
    /\ UNCHANGED <<n, k, s, d, witnesses, idx, outcomes, tested, verdict,
                   min, max, locals, draw, result>>

NextCheck == callCheckWitness

SpecCheck == InitCheck /\ [][NextCheck]_vars

---------------------------------------------------------------------------
(* The reference oracle: primality by trial division *)

\* a mod f for a BigInt a >= 0 and a machine integer f, 1 <= f <= 21474836
ModSmall(a, f) ==
    LET s1 == ((a[1] % f) * 100) % f
        s2 == (s1 * 100) % f
        s3 == (s2 * 100) % f
        s4 == (s3 * 100) % f
    IN  (s4 + (a[2] % f)) % f

\* f * f as a BigInt, for a machine integer f, 0 <= f <= 21474836
SquareBig(f) ==
    LET h == f \div 10000
        l == f % 10000
    IN  Add(Add(Dec(h * h, 0),
                Dec((2 * h * l) \div 10000, ((2 * h * l) % 10000) * 10000)),
            Big(l * l))

\* The largest r with r * r <= a, for 0 <= a < 21474836^2
IsqrtVars == [lo : Nat, hi : Nat, a : BigInts]
IsqrtLoop[st \in IsqrtVars] ==
    IF st.lo = st.hi THEN st.lo
    ELSE LET mid == (st.lo + st.hi + 1) \div 2
         IN  IF Le(SquareBig(mid), st.a)
               THEN IsqrtLoop[[lo |-> mid, hi |-> st.hi, a |-> st.a]]
               ELSE IsqrtLoop[[lo |-> st.lo, hi |-> mid - 1, a |-> st.a]]
Isqrt(a) == IsqrtLoop[[lo |-> 0, hi |-> 21474836, a |-> a]]

IsComposite(a) ==
    /\ Le(Big(4), a)
    /\ \E f \in 2..Isqrt(a) : ModSmall(a, f) = 0

IsPrime(a) == Le(Two, a) /\ ~IsComposite(a)

---------------------------------------------------------------------------
(* What the claims need to name *)

LastThreshold == WitnessTable[Len(WitnessTable)].below

\* millerRabin went through witness selection and entered its for-of loop.
LoopEntered == idx >= 1 /\ pc \in {"test", "done"}

\* n - 1 is factored, or being factored.
Factoring == pc = "halve"
Factored == pc \in {"gen", "draw", "ret", "test"} \/ (pc = "done" /\ idx >= 1)

\* The witnesses no checkWitness call accepts, by their position.
Failing == {i \in 1..Len(witnesses) : ~checkWitness(witnesses[i], d, n, s).ret}

AllTrue(bs) == \A i \in 1..Len(bs) : bs[i]

\* The values randomBigIntInRange(min, max) returns over every byte array.
Returnable ==
    {returned(sample(bytes, mask), min) :
        bytes \in {b \in Entropy(bytesNeeded) : accepted(sample(b, mask), range)}}

---------------------------------------------------------------------------
(* The claims *)

\* C1: for every n below the last threshold of the table and every k,
\* millerRabin(n, k) returns true exactly when trial division finds n prime;
\* so millerRabin(561) is false, and the result does not depend on k.
C1_MatchesOracle ==
    (pc = "done" /\ Lt(n, LastThreshold)) =>
        /\ verdict \in {"true", "false"}
        /\ (verdict = "true") = IsPrime(n)

C1_Witness == pc = "done" /\ n = Big(561) /\ verdict = "false" /\ Len(outcomes) >= 1

\* C2: for every k, millerRabin returns false for n < 2 (negative n too),
\* true for n = 2 and n = 3, false for even n > 2; it returns at once.
C2_EdgeCases ==
    pc # "call" =>
        /\ Lt(n, Two) => (pc = "done" /\ verdict = "false")
        /\ (n = Two \/ n = Three) => (pc = "done" /\ verdict = "true")
        /\ (Lt(Two, n) /\ IsEven(n)) => (pc = "done" /\ verdict = "false")

C2_Witness == pc = "done" /\ Lt(n, Zero) /\ verdict = "false"

\* C3: a false answer is definitive: whenever checkWitness(a, d, n, s) returns
\* false for a in [2, n-2] and n - 1 = 2^s * d, n is composite; so a prime n
\* passes every witness.
C3_FalseIsDefinitive ==
    (pc = "checked" /\ ~cw.ret) => IsComposite(n)

C3_Witness ==
    /\ pc = "checked"
    /\ Lt(n, Big(100))
    /\ IsPrime(n)
    /\ cw.ret
    /\ Len(cw.xs) >= 2

\* C4: when random witnesses are required (n odd, no row of the table above
\* n) and k < 1, millerRabin fails with an invalid argument and returns no
\* boolean.
C4_InvalidArgument ==
    (pc = "done" /\ ~IsEven(n) /\ getDeterministicWitnesses(n) = Null /\ k < 1) =>
        verdict \notin {"true", "false"}

\* C5: for min <= max, randomBigIntInRange(min, max) returns only values of
\* [min, max], returns each of them for some bytes of the entropy source, and
\* returns min when min = max.
C5_InRangeAndOnto ==
    /\ pc = "ret" => (Le(min, result) /\ Le(result, max))
    /\ (pc = "ret" /\ min = max) => result = min
    /\ pc = "draw" =>
          /\ \A v \in Returnable : Le(min, v) /\ Le(v, max)
          /\ Big(Cardinality(Returnable)) = range

C5_Witness == pc = "ret" /\ result = max /\ Lt(min, max)

\* C6: millerRabin hands the witnesses to checkWitness one at a time and in
\* order, and makes no call after one that returned false: the number of
\* calls is the position of the first failing witness, or the number of
\* witnesses when none fails.
C6_ShortCircuit ==
    /\ Len(tested) = Len(outcomes)
    /\ Len(tested) <= Len(witnesses)
    /\ tested = SubSeq(witnesses, 1, Len(tested))
    /\ AllTrue(SubSeq(outcomes, 1, Len(outcomes) - 1))
    /\ (pc = "test" /\ idx >= 1) => (Len(outcomes) = idx - 1 /\ AllTrue(outcomes))
    /\ (pc = "done" /\ idx >= 1) =>
          IF Failing = {}
            THEN verdict = "true" /\ Len(outcomes) = Len(witnesses)
            ELSE /\ verdict = "false"
                 /\ Len(outcomes) \in Failing
                 /\ \A i \in Failing : Len(outcomes) <= i

C6_Witness ==
    /\ pc = "done"
    /\ verdict = "false"
    /\ Len(outcomes) >= 2
    /\ Len(outcomes) < Len(witnesses)

\* C7: for odd n >= 5 the halving loop keeps 2^s * d = n - 1 at every
\* iteration, ends, and leaves d odd and s >= 1; s and d do not change
\* afterwards.
C7_Factoring ==
    /\ []((Factoring \/ Factored) => Shl(d, s) = Sub(n, One))
    /\ [](Factored => (~IsEven(d) /\ s >= 1))
    /\ [][(pc \notin {"call", "halve"}) => (s' = s /\ d' = d)]_vars
    /\ (Factoring ~> Factored)

C7_Witness == pc = "test" /\ s >= 3 /\ Lt(Big(MaxN), n)

\* C8: checkWitness(a, d, n, s) returns true exactly when a^d mod n is 1 or
\* n - 1, or a^(2^r * d) mod n is n - 1 for some r in 1 .. s-1; it squares at
\* most s - 1 times; and it returns false when x becomes 1 by squaring.
C8_CheckWitness ==
    pc = "checked" =>
        /\ cw.ret = (\/ modPow(witnesses[1], d, n) \in {One, Sub(n, One)}
                     \/ \E r \in 1..s - 1 :
                           modPow(witnesses[1], Shl(d, r), n) = Sub(n, One))
        /\ Len(cw.xs) >= 1
        /\ Len(cw.xs) - 1 <= s - 1
        /\ (\E i \in 2..Len(cw.xs) : cw.xs[i] = One) => ~cw.ret

C8_Witness ==
    /\ pc = "checked"
    /\ ~cw.ret
    /\ Len(cw.xs) >= 2
    /\ cw.xs[Len(cw.xs)] = One

\* C9: for odd n >= 5 every witness handed to checkWitness lies in [2, n-2]:
\* the table's answer is the first row whose threshold exceeds n, and in
\* random mode exactly k witnesses are produced.
C9_Witnesses ==
    LoopEntered =>
        /\ \A i \in 1..Len(witnesses) :
              Le(Two, witnesses[i]) /\ Le(witnesses[i], Sub(n, Two))
        /\ Lt(n, LastThreshold) =>
              \E r \in 1..Len(WitnessTable) :
                  /\ witnesses = WitnessTable[r].ws
                  /\ Lt(n, WitnessTable[r].below)
                  /\ \A q \in 1..r - 1 : ~Lt(n, WitnessTable[q].below)
        /\ ~Lt(n, LastThreshold) => Len(witnesses) = k

\* C10: the rejection loop accepts at least half of the masked samples
\* (2 * range >= 2^bitsNeeded), so with a fair entropy source it ends and a
\* value is returned; a rejected sample is never returned.
C10_RejectionLoop ==
    /\ [](pc \in {"draw", "ret"} => Le(Shl(One, bitsNeeded), Shl1(range)))
    /\ [](pc = "ret" => (accepted(draw, range) /\ result = Add(min, draw)))
    /\ [][(pc = "draw" /\ ~accepted(draw', range)) =>
            (pc' = "draw" /\ result' = result)]_vars
    /\ (pc = "draw" ~> pc = "ret")

C10_Witness == pc = "draw" /\ ~accepted(draw, range)

====
